---- MODULE Spec2Model ----
(***************************************************************************)
(* Model of BakeryManagementSystem (src/BakeryManagementsystem.py): the    *)
(* in-memory order table, the next-ID counter, the CSV files it reads and  *)
(* writes, and one action per public method.                               *)
(*                                                                         *)
(* Values.  A cell that pandas may hold as NaN is an optional value:       *)
(* NaN is the empty tuple and a present value v is <<v>>.  The same        *)
(* encoding is used for Python's None defaults of update_order.  A text    *)
(* that the code inspects character by character (the quantity) is a       *)
(* sequence of one-character strings; a date text is the sequence of its   *)
(* "-"-separated numeric parts ("2024-13-40" is <<2024, 13, 40>>, "" is    *)
(* <<>>); other texts are TLA+ strings.                                    *)
(***************************************************************************)
EXTENDS Integers, Sequences, FiniteSets, TLC

\* ---- bounds -------------------------------------------------------------
\* most records in the table, largest OrderID add_order hands out, most calls
\* in one session
MaxOrders == 2
MaxId == 3
MaxSteps == 4

\* ---- optional values ----------------------------------------------------
NaN == <<>>
None == <<>>
Val(x) == <<x>>
IsNaN(c) == Len(c) = 0

\* ---- file names ---------------------------------------------------------
filename == "bakery_orders.csv"
backup_filename == "bakery_orders_backup.csv"
other_filename == "orders.csv"
Paths == {filename, backup_filename, other_filename}

Absent == [exists |-> FALSE, rows |-> <<>>]
File(rows) == [exists |-> TRUE, rows |-> rows]

\* ---- text <-> integer ---------------------------------------------------
DigitChars == <<"0", "1", "2", "3", "4", "5", "6", "7", "8", "9">>
IsDigitChar(c) == \E d \in 1..10 : DigitChars[d] = c
DigitOf(c) == (CHOOSE d \in 1..10 : DigitChars[d] = c) - 1

RECURSIVE IntToStr(_)
IntToStr(n) ==
    IF n < 10 THEN <<DigitChars[n + 1]>>
    ELSE IntToStr(n \div 10) \o <<DigitChars[(n % 10) + 1]>>

RECURSIVE StrToInt(_)
StrToInt(s) ==
    IF Len(s) = 0 THEN 0
    ELSE 10 * StrToInt(SubSeq(s, 1, Len(s) - 1)) + DigitOf(s[Len(s)])

isdigit(s) == Len(s) > 0 /\ \A i \in 1..Len(s) : IsDigitChar(s[i])

\* ---- validation ---------------------------------------------------------
validate_quantity(quantity) == isdigit(quantity) /\ StrToInt(quantity) > 0

IsLeap(y) == (y % 4 = 0 /\ y % 100 # 0) \/ y % 400 = 0
DaysInMonth(y, m) ==
    IF m = 2 THEN (IF IsLeap(y) THEN 29 ELSE 28)
    ELSE IF m \in {4, 6, 9, 11} THEN 30 ELSE 31

validate_date(date_str) ==
    /\ Len(date_str) = 3
    /\ date_str[1] \in 1..9999
    /\ date_str[2] \in 1..12
    /\ date_str[3] \in 1..DaysInMonth(date_str[1], date_str[2])

\* ---- CSV conversion (DataFrame.to_csv / pandas.read_csv) -----------------
\* read_csv's default missing-value markers among the texts of the model.
NaValues == {"", "NA", "NaN", "null"}

CellToCsv(c) == IF IsNaN(c) THEN "" ELSE c[1]
CsvToCell(s) == IF s \in NaValues THEN NaN ELSE Val(s)
IdToCsv(c) == IF IsNaN(c) THEN <<>> ELSE IntToStr(c[1])
CsvToId(s) == IF Len(s) = 0 THEN NaN ELSE Val(StrToInt(s))

RowToCsv(r) ==
    [OrderID |-> IdToCsv(r.OrderID),
     CustomerName |-> CellToCsv(r.CustomerName),
     Order |-> CellToCsv(r.Order),
     Quantity |-> IntToStr(r.Quantity),
     OrderDate |-> r.OrderDate]

CsvToRow(r) ==
    [OrderID |-> CsvToId(r.OrderID),
     CustomerName |-> CsvToCell(r.CustomerName),
     Order |-> CsvToCell(r.Order),
     Quantity |-> StrToInt(r.Quantity),
     OrderDate |-> r.OrderDate]

to_csv(df) == [i \in 1..Len(df) |-> RowToCsv(df[i])]
read_csv(rows) == [i \in 1..Len(rows) |-> CsvToRow(rows[i])]

\* ---- column helpers -----------------------------------------------------
SetMax(S) == CHOOSE m \in S : \A x \in S : x <= m
SetMin(S) == CHOOSE m \in S : \A x \in S : m <= x

\* Series.max(): the largest non-NaN value, NaN when there is none.
IdMax(df) ==
    LET present == {df[i].OrderID[1] : i \in {j \in 1..Len(df) : ~IsNaN(df[j].OrderID)}}
    IN IF present = {} THEN NaN ELSE Val(SetMax(present))

\* x + 1 in float/integer arithmetic: NaN + 1 is NaN.
Plus1(c) == IF IsNaN(c) THEN NaN ELSE Val(c[1] + 1)

\* index[orders["Order ID"] == order_id]: NaN equals nothing.
IndexOf(df, order_id) == {i \in 1..Len(df) : df[i].OrderID = Val(order_id)}

RECURSIVE SeqSum(_)
SeqSum(s) == IF Len(s) = 0 THEN 0 ELSE s[1] + SeqSum(Tail(s))

\* ---- inputs -------------------------------------------------------------
Names == {"Alice"}
OrderTexts == {"Cake", "Bread", ""}
QuantityTexts == {<<"2">>, <<"0">>, <<"-", "3">>}
DateTexts == {<<2024, 5, 1>>, <<2024, 13, 40>>}
OrderIds == 1..(MaxId + 1)

\* update_order calls: <<name, order, quantity, order_date>>, None for a
\* field that is left out.
UpdCalls ==
    {<<Val("Bob"), None, None, None>>,
     <<None, Val("Bread"), None, None>>,
     <<None, None, Val(<<"0", "3">>), None>>,
     <<None, None, None, Val(<<2024, 2, 29>>)>>,
     <<Val("Bob"), Val("Bread"), Val(<<"0", "3">>), Val(<<2024, 2, 29>>)>>,
     <<Val("Bob"), None, Val(<<"0">>), None>>,
     <<None, Val("Bread"), Val(<<"0", "3">>), Val(<<2023, 2, 29>>)>>}

InitFiles ==
    {Absent,
     File(<<>>),
     File(<<[OrderID |-> <<"2">>, CustomerName |-> "Alice", Order |-> "Bread",
             Quantity |-> <<"2">>, OrderDate |-> <<2024, 5, 1>>]>>),
     File(<<[OrderID |-> <<"1">>, CustomerName |-> "Alice", Order |-> "",
             Quantity |-> <<"4">>, OrderDate |-> <<2024, 5, 1>>]>>)}

\* orders, next_order_id: the object's fields.  fs: the files by path.
\* last: what the latest call was and what it reported.  steps: the calls made.
\* History of the session, read by the properties only:
\*   firstId      the next-ID computed by __init__
\*   assigned     the OrderIDs handed out by successful add_order calls
\*   deleted      the OrderIDs removed by successful delete_order calls
\*   sinceRestore the same, emptied by each successful restore_orders
\*   snap         the table at the latest backup_orders, None once the
\*                backup file was rewritten otherwise or restored from
VARIABLES orders, next_order_id, fs, last, steps, firstId, assigned, deleted, sinceRestore, snap

vars == <<orders, next_order_id, fs, last, steps, firstId, assigned, deleted, sinceRestore, snap>>

\* ---- __init__ -----------------------------------------------------------
LoadedOrders(f) == IF f.exists THEN read_csv(f.rows) ELSE <<>>
LoadedNextId(f) ==
    IF f.exists /\ Len(read_csv(f.rows)) > 0
    THEN Plus1(IdMax(read_csv(f.rows)))
    ELSE Val(1)

Init ==
    \E f \in InitFiles :
        /\ fs = [p \in Paths |-> IF p = filename THEN f ELSE Absent]
        /\ orders = LoadedOrders(f)
        /\ next_order_id = LoadedNextId(f)
        /\ last = [op |-> "init", result |-> "ok", out |-> <<>>]
        /\ steps = 0
        /\ firstId = LoadedNextId(f)
        /\ assigned = {}
        /\ deleted = {}
        /\ sinceRestore = {}
        /\ snap = None

\* ---- save_orders --------------------------------------------------------
Saved(df) == [fs EXCEPT ![filename] = File(to_csv(df))]

Report(op, result, out) == [op |-> op, result |-> result, out |-> out]
Called == steps < MaxSteps /\ steps' = steps + 1

\* Python truthiness of an optional text argument: None and "" are false.
Truthy(x) == x # None /\ x[1] # ""
TruthySeq(x) == x # None /\ Len(x[1]) > 0

\* ---- add_order ----------------------------------------------------------
AddOrder(name, order, quantity, order_date) ==
    /\ Called
    /\ Len(orders) < MaxOrders
    /\ IF IsNaN(next_order_id) THEN TRUE ELSE next_order_id[1] <= MaxId
    /\ IF ~validate_quantity(quantity)
       THEN /\ last' = Report("add", "InvalidQuantity", <<>>)
            /\ UNCHANGED <<orders, next_order_id, fs, assigned>>
       ELSE IF ~validate_date(order_date)
       THEN /\ last' = Report("add", "InvalidDate", <<>>)
            /\ UNCHANGED <<orders, next_order_id, fs, assigned>>
       ELSE /\ orders' = Append(orders,
                            [OrderID |-> next_order_id,
                             CustomerName |-> Val(name),
                             Order |-> Val(order),
                             Quantity |-> StrToInt(quantity),
                             OrderDate |-> order_date])
            /\ fs' = Saved(orders')
            /\ next_order_id' = Plus1(next_order_id)
            /\ assigned' = assigned \cup {next_order_id}
            /\ last' = Report("add", "ok", next_order_id)
    /\ UNCHANGED <<firstId, deleted, sinceRestore, snap>>

\* ---- update_order -------------------------------------------------------
WithName(df, i, name) ==
    IF Truthy(name) THEN [df EXCEPT ![i].CustomerName = name] ELSE df
\* Mutant: the order text is stored whether or not one was given.
WithOrderAlways(df, i, order) == [df EXCEPT ![i].Order = order]
WithOrder(df, i, order) ==
    IF Truthy(order) THEN [df EXCEPT ![i].Order = order] ELSE df
WithQuantity(df, i, quantity) ==
    IF TruthySeq(quantity) THEN [df EXCEPT ![i].Quantity = StrToInt(quantity[1])] ELSE df
WithDate(df, i, order_date) ==
    IF TruthySeq(order_date) THEN [df EXCEPT ![i].OrderDate = order_date[1]] ELSE df

UpdateOrder(order_id, name, order, quantity, order_date) ==
    LET idx == IndexOf(orders, order_id)
    IN /\ Called
       /\ IF idx = {}
          THEN /\ last' = Report("update", "NotFound", <<>>)
               /\ UNCHANGED <<orders, fs>>
          ELSE LET i == SetMin(idx)
                   o2 == WithOrder(WithName(orders, i, name), i, order)
                   o3 == WithQuantity(o2, i, quantity)
                   o4 == WithDate(o3, i, order_date)
               IN IF TruthySeq(quantity) /\ ~validate_quantity(quantity[1])
                  THEN /\ orders' = o2
                       /\ last' = Report("update", "InvalidQuantity", <<>>)
                       /\ UNCHANGED fs
                  ELSE IF TruthySeq(order_date) /\ ~validate_date(order_date[1])
                  THEN /\ orders' = o3
                       /\ last' = Report("update", "InvalidDate", <<>>)
                       /\ UNCHANGED fs
                  ELSE /\ orders' = o4
                       /\ fs' = Saved(orders')
                       /\ last' = Report("update", "ok", <<>>)
       /\ UNCHANGED <<next_order_id, firstId, assigned, deleted, sinceRestore, snap>>

\* ---- delete_order -------------------------------------------------------
\* Mutant: the table is cut at the first dropped row.
DropFrom(df, idx) == SubSeq(df, 1, SetMin(idx) - 1)
Drop(df, idx) ==
    LET keep == {i \in 1..Len(df) : i \notin idx}
        Nth(k) == CHOOSE i \in keep : Cardinality({j \in keep : j < i}) = k - 1
    IN [k \in 1..Cardinality(keep) |-> df[Nth(k)]]

DeleteOrder(order_id) ==
    LET idx == IndexOf(orders, order_id)
    IN /\ Called
       /\ IF idx = {}
          THEN /\ last' = Report("delete", "NotFound", <<>>)
               /\ UNCHANGED <<orders, fs, deleted, sinceRestore>>
          ELSE /\ orders' = Drop(orders, idx)
               /\ fs' = Saved(orders')
               /\ deleted' = deleted \cup {order_id}
               /\ sinceRestore' = sinceRestore \cup {order_id}
               /\ last' = Report("delete", "ok", <<>>)
       /\ UNCHANGED <<next_order_id, firstId, assigned, snap>>

\* ---- lookup_order -------------------------------------------------------
Lookup(df, order_id) == SelectSeq(df, LAMBDA r : r.OrderID = Val(order_id))

LookupOrder(order_id) ==
    /\ Called
    /\ last' = IF Len(Lookup(orders, order_id)) > 0
               THEN Report("lookup", "ok", Lookup(orders, order_id))
               ELSE Report("lookup", "NotFound", <<>>)
    /\ UNCHANGED <<orders, next_order_id, fs, firstId, assigned, deleted, sinceRestore, snap>>

\* ---- export_orders_to_csv ----------------------------------------------
ExportOrdersToCsv(path) ==
    /\ Called
    /\ fs' = [fs EXCEPT ![path] = File(to_csv(orders))]
    /\ last' = Report("export", "ok", <<>>)
    /\ snap' = IF path = backup_filename THEN None ELSE snap
    /\ UNCHANGED <<orders, next_order_id, firstId, assigned, deleted, sinceRestore>>

\* ---- backup_orders ------------------------------------------------------
BackupOrders ==
    /\ Called
    /\ fs' = [fs EXCEPT ![backup_filename] = File(to_csv(orders))]
    /\ last' = Report("backup", "ok", <<>>)
    /\ snap' = Val(orders)
    /\ UNCHANGED <<orders, next_order_id, firstId, assigned, deleted, sinceRestore>>

\* ---- restore_orders -----------------------------------------------------
RestoreOrders ==
    /\ Called
    /\ IF fs[backup_filename].exists
       THEN /\ orders' = read_csv(fs[backup_filename].rows)
            /\ fs' = Saved(orders')
            /\ next_order_id' = Plus1(IdMax(orders'))
            /\ sinceRestore' = {}
            /\ snap' = None
            /\ last' = Report("restore", "ok", <<>>)
       ELSE /\ last' = Report("restore", "NoBackupFound", <<>>)
            /\ UNCHANGED <<orders, next_order_id, fs, sinceRestore, snap>>
    /\ UNCHANGED <<firstId, assigned, deleted>>

\* ---- order_summary ------------------------------------------------------
\* Python's order on the texts of the model ("" < "Bread" < "Cake").
StrRank(s) == IF s = "" THEN 0 ELSE IF s = "Bread" THEN 1 ELSE IF s = "Cake" THEN 2 ELSE 3

\* Series.mode(): the non-NaN values with the highest count, sorted.
\* ModeFirst is mode()[0]; on an empty mode the indexing raises KeyError.
Count(df, v) == Cardinality({i \in 1..Len(df) : df[i].Order = Val(v)})
Present(df) == {df[i].Order[1] : i \in {j \in 1..Len(df) : ~IsNaN(df[j].Order)}}
Modes(df) == {v \in Present(df) : \A w \in Present(df) : Count(df, w) <= Count(df, v)}
ModeFirst(df) == CHOOSE v \in Modes(df) : \A w \in Modes(df) : StrRank(v) <= StrRank(w)

total_orders(df) == Len(df)
total_quantity(df) == SeqSum([i \in 1..Len(df) |-> df[i].Quantity])

OrderSummary ==
    /\ Called
    /\ last' = IF total_orders(orders) > 0 /\ Modes(orders) = {}
               THEN Report("summary", "KeyError", <<>>)
               ELSE Report("summary", "ok",
                           [total_orders |-> total_orders(orders),
                            total_quantity |-> total_quantity(orders),
                            most_popular_order |->
                                IF total_orders(orders) > 0 THEN ModeFirst(orders) ELSE "None"])
    /\ UNCHANGED <<orders, next_order_id, fs, firstId, assigned, deleted, sinceRestore, snap>>

\* ---- the session --------------------------------------------------------
Next ==
    \/ \E name \in Names, order \in OrderTexts, quantity \in QuantityTexts, order_date \in DateTexts :
           AddOrder(name, order, quantity, order_date)
    \/ \E order_id \in OrderIds, c \in UpdCalls :
           UpdateOrder(order_id, c[1], c[2], c[3], c[4])
    \/ \E order_id \in OrderIds : DeleteOrder(order_id)
    \/ \E order_id \in OrderIds : LookupOrder(order_id)
    \/ \E path \in Paths : ExportOrdersToCsv(path)
    \/ BackupOrders
    \/ RestoreOrders
    \/ OrderSummary

Spec == Init /\ [][Next]_vars

\* ======================================================================
\* Properties
\* ======================================================================
IsInt(c) == ~IsNaN(c)
IdLess(a, b) == IsInt(a) /\ IsInt(b) /\ a[1] < b[1]
FileRows(f) == IF f.exists THEN f.rows ELSE <<>>
Without(df, k) == SubSeq(df, 1, k - 1) \o SubSeq(df, k + 1, Len(df))
Did(op, result) == last.op = op /\ last.result = result
Errors == {"InvalidQuantity", "InvalidDate", "NotFound", "NoBackupFound"}

\* C1: the OrderIDs assigned by successive successful add calls are integers,
\* strictly increasing and pairwise distinct, whatever operations lie between
\* them; the first is the next-ID computed at load (max(existing)+1, or 1 on
\* an empty table); an ID once assigned is never assigned again.
C1_AddIdsIncreasing ==
    [][(last'.op = "add" /\ last'.result = "ok") =>
          /\ IsInt(last'.out)
          /\ last'.out \notin assigned
          /\ \A a \in assigned : IdLess(a, last'.out)
          /\ assigned = {} => last'.out = firstId]_vars

\* C2: no two records of the in-memory table have the same OrderID.
C2_UniqueIds ==
    \A i, j \in 1..Len(orders) : i # j => orders[i].OrderID # orders[j].OrderID

\* C3: the next-ID counter is an integer strictly greater than every OrderID
\* in the table, and it is 1 when it was recomputed from an empty table.
C3_NextIdAboveAll ==
    /\ IsInt(next_order_id)
    /\ \A i \in 1..Len(orders) : IdLess(orders[i].OrderID, next_order_id)
    /\ (last.op \in {"init", "restore"} /\ last.result = "ok" /\ Len(orders) = 0)
           => next_order_id = Val(1)

\* C4: a call that ends in an error (invalid quantity or date, absent
\* OrderID, no backup file) leaves the in-memory table and the primary file
\* as they were before the call.
C4_ErrorsChangeNothing ==
    [][last'.result \in Errors =>
          orders' = orders /\ fs'[filename] = fs[filename]]_vars

\* C5: backup(), then any adds, updates and deletes, then restore() gives an
\* in-memory table and a primary file equal to the table at backup time,
\* record for record, and next-ID = max(restored OrderIDs) + 1.
C5_BackupRestoreRoundTrip ==
    [][(last'.op = "restore" /\ last'.result = "ok" /\ snap # None) =>
          /\ orders' = snap[1]
          /\ fs'[filename] = File(to_csv(snap[1]))
          /\ IsInt(IdMax(snap[1])) => next_order_id' = Val(IdMax(snap[1])[1] + 1)]_vars

\* What one delete_order call does to the table.
DeleteEffect ==
    \A order_id \in OrderIds :
        DeleteOrder(order_id) =>
            IF IndexOf(orders, order_id) = {}
            THEN last'.result = "NotFound" /\ orders' = orders
            ELSE /\ last'.result = "ok"
                 /\ Len(orders') = Len(orders) - 1
                 /\ \E k \in 1..Len(orders) :
                        orders[k].OrderID = Val(order_id) /\ orders' = Without(orders, k)
                 /\ next_order_id' = next_order_id

\* C6 as stated: delete of an absent OrderID leaves the table alone, delete of
\* a present one removes exactly that record and keeps next-ID, and no OrderID
\* deleted in the session is found by a lookup afterwards, whatever follows.
C6_DeletedNeverFound ==
    [][/\ last'.op = "delete" => DeleteEffect
       /\ \A order_id \in deleted' : Len(Lookup(orders', order_id)) = 0]_vars

\* C6 amended: as C6, but a deleted OrderID stays absent only until the next
\* successful restore.
C6_DeletedAbsentUntilRestore ==
    [][/\ last'.op = "delete" => DeleteEffect
       /\ \A order_id \in sinceRestore' : Len(Lookup(orders', order_id)) = 0]_vars

C6_Witness ==
    /\ Did("delete", "ok")
    /\ Len(orders) > 0
    /\ sinceRestore # {}
    /\ steps >= 2

\* C7: export and backup write the current table to their target file and
\* leave the table, next-ID and the contents of the primary file unchanged,
\* for every export path.
C7_ExportLeavesPrimary ==
    [][/\ \A path \in Paths :
              (last'.op = "export" /\ ExportOrdersToCsv(path)) =>
                  /\ fs'[path] = File(to_csv(orders))
                  /\ orders' = orders /\ next_order_id' = next_order_id
                  /\ FileRows(fs'[filename]) = FileRows(fs[filename])
       /\ last'.op = "backup" =>
              /\ fs'[backup_filename] = File(to_csv(orders))
              /\ orders' = orders /\ next_order_id' = next_order_id
              /\ FileRows(fs'[filename]) = FileRows(fs[filename])]_vars

\* C8: a successful update changes only the provided fields of the record
\* whose OrderID was given; its OrderID and other fields, every other record,
\* the order and number of records and next-ID stay, and the provided fields
\* hold the given values, the quantity as the parsed integer.
C8_UpdateFrame ==
    [][(last'.op = "update" /\ last'.result = "ok") =>
          \A order_id \in OrderIds, c \in UpdCalls :
              UpdateOrder(order_id, c[1], c[2], c[3], c[4]) =>
                  /\ Len(orders') = Len(orders)
                  /\ next_order_id' = next_order_id
                  /\ \E k \in 1..Len(orders) :
                        /\ orders[k].OrderID = Val(order_id)
                        /\ \A i \in 1..Len(orders) : i # k => orders'[i] = orders[i]
                        /\ orders'[k].OrderID = orders[k].OrderID
                        /\ orders'[k].CustomerName =
                               IF c[1] = None THEN orders[k].CustomerName ELSE c[1]
                        /\ orders'[k].Order =
                               IF c[2] = None THEN orders[k].Order ELSE c[2]
                        /\ orders'[k].Quantity =
                               IF c[3] = None THEN orders[k].Quantity
                               ELSE StrToInt(c[3][1])
                        /\ orders'[k].OrderDate =
                               IF c[4] = None THEN orders[k].OrderDate ELSE c[4][1]]_vars

C8_Witness ==
    /\ Did("update", "ok")
    /\ Len(orders) = 2
    /\ orders[2].CustomerName = Val("Bob")
    /\ orders[2].Quantity = 3
    /\ orders[1].CustomerName = Val("Alice")

\* C9: summary returns the number of records, the sum of their quantities and
\* the most frequent OrderDescription, the first in table order among those
\* tied for the highest count, "None" on an empty table.
CellCount(df, c) == Cardinality({i \in 1..Len(df) : df[i].Order = c})
FirstMostFrequent(df) ==
    LET k == CHOOSE i \in 1..Len(df) :
                 /\ \A j \in 1..Len(df) : CellCount(df, df[j].Order) <= CellCount(df, df[i].Order)
                 /\ \A j \in 1..(i - 1) : CellCount(df, df[j].Order) < CellCount(df, df[i].Order)
    IN CellToCsv(df[k].Order)

C9_Summary ==
    last.op = "summary" =>
        /\ last.result = "ok"
        /\ last.out.total_orders = Len(orders)
        /\ last.out.total_quantity = SeqSum([i \in 1..Len(orders) |-> orders[i].Quantity])
        /\ last.out.most_popular_order =
               IF Len(orders) = 0 THEN "None" ELSE FirstMostFrequent(orders)

\* C10: between calls the primary file holds the in-memory table (a missing
\* file counting as an empty table).
C10_FileMatchesTable == FileRows(fs[filename]) = to_csv(orders)

====
